---- MODULE Spec2Model ----
(***************************************************************************)
(* scry: an interactive tmux window manager (src/scry/scry.py) and its     *)
(* tmux command layer (src/scry/tmuxcmd.py).                               *)
(*                                                                         *)
(* Python strings are modelled as sequences of one-character strings, so   *)
(* that length, slicing, splitting, character classes and ordering are     *)
(* computed as Python computes them.  The token "sup2" stands for the      *)
(* single character U+00B2 (SUPERSCRIPT TWO).                              *)
(***************************************************************************)
EXTENDS Integers, Sequences, FiniteSets, TLC

VARIABLES
    pc,                     \* position of do_table_loop
    WINDOW_HISTORY,         \* scry.py:70, most recent last
    windows,                \* the list fetched at the top of the iteration
    display_error_message,  \* pending message of do_table_loop
    config,                 \* the configuration mapping
    terminal_columns,       \* get_terminal_size().columns
    sessions,               \* tmux: the sessions of the server (none: no server)
    group_windows,          \* tmux: the windows shared by the managed group
    next_window_id,         \* tmux: window ids are never reused
    dump_file,              \* contents of config["dump_file"], or NoFile
    last,                   \* history variable: what the last step did
    promoted,               \* history variable: identifiers ever promoted
    fn_in,                  \* arguments of the pure function under study
    fn_out                  \* its result

vars == <<pc, WINDOW_HISTORY, windows, display_error_message, config,
          terminal_columns, sessions, group_windows, next_window_id,
          dump_file, last, promoted, fn_in, fn_out>>

(***************************************************************************)
(* Characters and strings                                                  *)
(***************************************************************************)

\* ord(c) of the characters the model uses
CodePoint ==
    [c \in {" ", "!", "*", "+", ",", "-", ".", "0", "1", "2", "3", "4", "5",
            "6", "7", "8", "9", "?", "_", "a", "b", "c", "d", "h", "i", "l",
            "m", "n", "q", "s", "u", "x", "sup2"} |->
       CASE c = " " -> 32 [] c = "!" -> 33 [] c = "*" -> 42 [] c = "+" -> 43
         [] c = "," -> 44 [] c = "-" -> 45 [] c = "." -> 46 [] c = "0" -> 48
         [] c = "1" -> 49 [] c = "2" -> 50 [] c = "3" -> 51 [] c = "4" -> 52
         [] c = "5" -> 53 [] c = "6" -> 54 [] c = "7" -> 55 [] c = "8" -> 56
         [] c = "9" -> 57 [] c = "?" -> 63 [] c = "_" -> 95 [] c = "a" -> 97
         [] c = "b" -> 98 [] c = "c" -> 99 [] c = "d" -> 100 [] c = "h" -> 104
         [] c = "i" -> 105 [] c = "l" -> 108 [] c = "m" -> 109
         [] c = "n" -> 110 [] c = "q" -> 113 [] c = "s" -> 115
         [] c = "u" -> 117 [] c = "x" -> 120 [] c = "sup2" -> 178]

\* str.isdecimal() of one character: Unicode category Nd
IsDecimalChar(c) == CodePoint[c] >= 48 /\ CodePoint[c] <= 57

\* str.isdigit() of one character: Nd, or Numeric_Type=Digit such as U+00B2
IsDigitChar(c) == IsDecimalChar(c) \/ c = "sup2"

IsAlphaChar(c) == CodePoint[c] >= 97 /\ CodePoint[c] <= 122

\* the regular expression class \w on str patterns: alphanumerics and "_"
IsWordChar(c) == IsAlphaChar(c) \/ IsDigitChar(c) \/ c = "_"

\* str.isdecimal(): non-empty and every character decimal
isdecimal(s) == Len(s) > 0 /\ \A i \in 1..Len(s) : IsDecimalChar(s[i])

\* str.isdigit(): non-empty and every character a digit
isdigit(s) == Len(s) > 0 /\ \A i \in 1..Len(s) : IsDigitChar(s[i])

\* int(s) of a decimal string
RECURSIVE int(_)
int(s) ==
    IF Len(s) = 0 THEN 0
    ELSE 10 * int(SubSeq(s, 1, Len(s) - 1)) + (CodePoint[s[Len(s)]] - 48)

\* s.startswith(p)
startswith(s, p) == Len(s) >= Len(p) /\ SubSeq(s, 1, Len(p)) = p

\* s.split(): the maximal runs of non-whitespace characters, in order
RECURSIVE split(_)
split(s) ==
    IF Len(s) = 0 THEN <<>>
    ELSE IF s[1] = " " THEN split(Tail(s))
    ELSE LET n == CHOOSE k \in 1..Len(s) :
                     /\ \A i \in 1..k : s[i] # " "
                     /\ (k = Len(s) \/ s[k + 1] = " ")
         IN  <<SubSeq(s, 1, n)>> \o split(SubSeq(s, n + 1, Len(s)))

\* a < b for Python strings: lexicographic on code points
RECURSIVE StrLess(_, _)
StrLess(a, b) ==
    IF Len(b) = 0 THEN FALSE
    ELSE IF Len(a) = 0 THEN TRUE
    ELSE IF a[1] # b[1] THEN CodePoint[a[1]] < CodePoint[b[1]]
    ELSE StrLess(Tail(a), Tail(b))

(***************************************************************************)
(* validate_window_name                                                    *)
(***************************************************************************)

\* the character class [\w+-.] of scry.py:465: inside a class, "+-." is the
\* range from "+" (43) to "." (46)
WindowNameClass(c) ==
    IsWordChar(c) \/ (CodePoint[c] >= CodePoint["+"] /\ CodePoint[c] <= CodePoint["."])

validate_window_name(s) ==
    Len(s) > 0 /\ \A i \in 1..Len(s) : WindowNameClass(s[i])

(***************************************************************************)
(* The tmux server, as the commands of tmuxcmd.py see it                   *)
(***************************************************************************)

None == "None"

\* a dump file that does not exist
NoFile == [exists |-> FALSE, active_windows |-> <<>>]

\* tmux names its windows @0, @1, ... and its sessions $0, $1, ...
WindowIds == <<"@0", "@1", "@2", "@3", "@4", "@5", "@6", "@7">>
SessionIds == <<"$0", "$1", "$2", "$3", "$4", "$5", "$6", "$7">>

WindowId(n) == WindowIds[n + 1]
SessionId(n) == SessionIds[n + 1]
WindowNumber(id) == CHOOSE n \in 0..(Len(WindowIds) - 1) : WindowIds[n + 1] = id
SessionNumber(id) == CHOOSE n \in 0..(Len(SessionIds) - 1) : SessionIds[n + 1] = id

\* the name tmux gives the first window of a new session (the shell's name)
DefaultWindowName == <<"s", "h">>

\* stderr of a tmux command that finds no server, and of one whose target
\* session does not exist
StderrNoServer == "no server running on /tmp/tmux-1000/default"
StderrNoSession == "can't find session"

\* `"no server running" in str(e)`, tmuxcmd.py:194 and :216
MentionsNoServer(stderr) == stderr = StderrNoServer

\* TmuxCmd._execute_cmd for list-sessions: return code, stderr and the rows
RunListSessions(ss) ==
    IF ss = {} THEN [returncode |-> 1, stderr |-> StderrNoServer, rows |-> {}]
    ELSE [returncode |-> 0, stderr |-> "", rows |-> ss]

\* TmuxCmd._execute_cmd for list-windows -t session_name: tmux lists the
\* windows of the session of that name
RunListWindows(ss, ws, session_name) ==
    IF ss = {} THEN [returncode |-> 1, stderr |-> StderrNoServer, rows |-> {}]
    ELSE IF \A s \in ss : s.session_name # session_name
         THEN [returncode |-> 1, stderr |-> StderrNoSession, rows |-> {}]
         ELSE [returncode |-> 0, stderr |-> "", rows |-> ws]

\* sorted(rows, key=window_name): stable, so rows of equal name keep the
\* order tmux printed them in (window ids grow with creation)
RECURSIVE SortedWindows(_)
SortedWindows(S) ==
    IF S = {} THEN <<>>
    ELSE LET m == CHOOSE w \in S : \A v \in S \ {w} :
                      \/ StrLess(w.window_name, v.window_name)
                      \/ (w.window_name = v.window_name
                          /\ WindowNumber(w.window_id) < WindowNumber(v.window_id))
         IN  <<m>> \o SortedWindows(S \ {m})

\* sorted(rows, key=session_name): tmux session names are unique
RECURSIVE SortedSessions(_)
SortedSessions(S) ==
    IF S = {} THEN <<>>
    ELSE LET m == CHOOSE s \in S : \A v \in S \ {s} :
                      StrLess(s.session_name, v.session_name)
         IN  <<m>> \o SortedSessions(S \ {m})

\* What a nonzero exit of the list command becomes (tmuxcmd.py:193-199 and
\* :215-221): the RuntimeError is caught; "no server running" returns [];
\* any other text leaves the except block without returning, and the return
\* statement then reads the unassigned local tmux_cmd
ListFailure(stderr) ==
    IF MentionsNoServer(stderr) THEN [exc |-> None, val |-> <<>>]
    ELSE [exc |-> "UnboundLocalError", val |-> <<>>]

tmux_list_windows(ss, ws, session_name) ==
    LET cmd == RunListWindows(ss, ws, session_name)
    IN  IF cmd.returncode # 0 THEN ListFailure(cmd.stderr)
        ELSE [exc |-> None, val |-> SortedWindows(cmd.rows)]

tmux_list_sessions(ss) ==
    LET cmd == RunListSessions(ss)
    IN  IF cmd.returncode # 0 THEN ListFailure(cmd.stderr)
        ELSE [exc |-> None, val |-> SortedSessions(cmd.rows)]

Range(f) == {f[i] : i \in DOMAIN f}

tmux_session_exists(ss, session_name) ==
    session_name \in {s.session_name : s \in Range(tmux_list_sessions(ss).val)}

\* may only be evaluated when the listing does not raise
tmux_window_exists(ss, ws, window_name, session_group) ==
    window_name \in
        {w.window_name : w \in Range(tmux_list_windows(ss, ws, session_group).val)}

(***************************************************************************)
(* Commands that change the server.  A world is the record                 *)
(* [ss: sessions, ws: windows of the managed group, nid: next window id].  *)
(***************************************************************************)

World(ss, ws, nid) == [ss |-> ss, ws |-> ws, nid |-> nid]

NewWindow(n, name) ==
    [window_id |-> WindowId(n), window_name |-> name, window_active_clients |-> "0"]

\* the numbers of live sessions are distinct
NewSessionId(ss) ==
    IF ss = {} THEN SessionId(0)
    ELSE SessionId(1 + (CHOOSE m \in {SessionNumber(s.session_id) : s \in ss} :
                           \A s \in ss : SessionNumber(s.session_id) <= m))

\* tmux new-session -s name -d -t group (tmuxcmd.py:137): refused when the
\* name is taken; joins the group when it exists; otherwise starts the group
\* with one window.  The return code is not looked at.
TmuxNewSession(w, session_group, session_name) ==
    LET new == [session_id |-> NewSessionId(w.ss), session_name |-> session_name,
                session_attached |-> "0", session_group |-> session_group]
    IN  IF \E s \in w.ss : s.session_name = session_name THEN w
        ELSE IF \E s \in w.ss : s.session_group = session_group
             THEN World(w.ss \cup {new}, w.ws, w.nid)
             ELSE World(w.ss \cup {new}, {NewWindow(w.nid, DefaultWindowName)},
                        w.nid + 1)

\* tmux new-window -t group -n name -d (tmuxcmd.py:115)
TmuxNewWindow(w, window_name) ==
    World(w.ss, w.ws \cup {NewWindow(w.nid, window_name)}, w.nid + 1)

\* a variant without the check that the window does not exist yet
tmux_create_detached_window_nocheck(w, window_name, session_group) ==
    IF ~tmux_session_exists(w.ss, session_group)
    THEN [exc |-> "RuntimeError",
          msg |-> <<"Session group ", session_group, " does not exist">>, w |-> w]
    ELSE [exc |-> None, msg |-> <<>>, w |-> TmuxNewWindow(w, window_name)]

\* a variant without the check that the session group exists
tmux_create_detached_window_nogroupcheck(w, window_name, session_group) ==
    IF tmux_window_exists(w.ss, w.ws, window_name, session_group)
    THEN [exc |-> "RuntimeError",
          msg |-> <<"Window ", window_name, " already exists in session group ",
                    session_group>>, w |-> w]
    ELSE [exc |-> None, msg |-> <<>>, w |-> TmuxNewWindow(w, window_name)]

tmux_create_detached_window(w, window_name, session_group) ==
    IF ~tmux_session_exists(w.ss, session_group)
    THEN [exc |-> "RuntimeError",
          msg |-> <<"Session group ", session_group, " does not exist">>, w |-> w]
    ELSE IF tmux_window_exists(w.ss, w.ws, window_name, session_group)
    THEN [exc |-> "RuntimeError",
          msg |-> <<"Window ", window_name, " already exists in session group ",
                    session_group>>, w |-> w]
    ELSE [exc |-> None, msg |-> <<>>, w |-> TmuxNewWindow(w, window_name)]

\* str(random.randint(10000000, 99999999)): the names the model draws
RandomSessionNames ==
    { <<"1", "2", "3", "4", "5", "6", "7", "8">>,
      <<"8", "7", "6", "5", "4", "3", "2", "1">> }

\* the names the retry loop of tmuxcmd.py:133-135 can end with
FreshSessionNames(ss) ==
    {n \in RandomSessionNames : ~tmux_session_exists(ss, n)}

\* tmux_create_detached_session with the name already chosen
tmux_create_detached_session(w, session_group, session_name) ==
    TmuxNewSession(w, session_group, session_name)

\* the test of tmuxcmd.py:163-168
Attachable(session, session_group) ==
    /\ session.session_group = session_group
    /\ isdigit(session.session_name)
    /\ session.session_attached = "0"
    /\ Len(session.session_name) = 8

\* tmux_attach_window; `fresh` is the name tmux_create_detached_session would
\* generate.  The attach blocks until the user detaches, which leaves the
\* session unattached again.
tmux_attach_window(w, window_id, session_group, fresh) ==
    LET listed == tmux_list_sessions(w.ss).val
        hits   == {i \in DOMAIN listed : Attachable(listed[i], session_group)}
    IN  IF hits # {}
        THEN LET i == CHOOSE k \in hits : \A j \in hits : k <= j
             IN  [target |-> <<listed[i].session_id, ":", window_id>>,
                  session_name |-> listed[i].session_name,
                  created |-> FALSE, w |-> w]
        ELSE [target |-> fresh \o <<":", window_id>>, session_name |-> fresh,
              created |-> TRUE,
              w |-> tmux_create_detached_session(w, session_group, fresh)]

(***************************************************************************)
(* History                                                                 *)
(***************************************************************************)

Contains(seq, x) == \E i \in DOMAIN seq : seq[i] = x

\* deque.remove(x): removes the first occurrence
RemoveFirst(seq, x) ==
    LET i == CHOOSE k \in DOMAIN seq : seq[k] = x /\ \A j \in 1..(k - 1) : seq[j] # x
    IN  SubSeq(seq, 1, i - 1) \o SubSeq(seq, i + 1, Len(seq))

\* a variant that appends without removing the earlier occurrence
update_window_history_noremove(hist, window_to_attach) ==
    IF Len(hist) = 0 THEN Append(hist, window_to_attach)
    ELSE IF window_to_attach # hist[Len(hist)] THEN Append(hist, window_to_attach)
    ELSE hist

update_window_history(hist, window_to_attach) ==
    IF Len(hist) = 0 THEN Append(hist, window_to_attach)
    ELSE IF window_to_attach # hist[Len(hist)]
         THEN Append(IF Contains(hist, window_to_attach)
                     THEN RemoveFirst(hist, window_to_attach) ELSE hist,
                     window_to_attach)
         ELSE hist

\* a variant that drops the head whenever the history is non-empty
PruneHistory_always(hist, wins) ==
    IF Len(hist) > 0 THEN SubSeq(hist, 1, Len(hist) - 1) ELSE hist

\* "Clean up history if needed", scry.py:408-415
PruneHistory(hist, wins) ==
    IF Len(hist) > 0
    THEN IF ~\E i \in DOMAIN wins : wins[i].window_id = hist[Len(hist)]
         THEN SubSeq(hist, 1, Len(hist) - 1)
         ELSE hist
    ELSE hist

(***************************************************************************)
(* Table renderer                                                          *)
(***************************************************************************)

\* Python slices s[:k] and s[k:] with negative indices counted from the end
PyIndex(s, k) ==
    IF k < 0 THEN (IF Len(s) + k < 0 THEN 0 ELSE Len(s) + k)
    ELSE (IF k > Len(s) THEN Len(s) ELSE k)

SliceTo(s, k) == SubSeq(s, 1, PyIndex(s, k))
SliceFrom(s, k) == SubSeq(s, PyIndex(s, k) + 1, Len(s))

format_window_name(window_name, maxlen) ==
    IF Len(window_name) <= maxlen THEN window_name
    ELSE LET startchars == maxlen \div 2
         IN  SliceTo(window_name, startchars) \o <<"*">>
                \o SliceFrom(window_name, -(maxlen - startchars - 1))

\* the while loop of get_column_width, entered with the current n_cols and
\* column_width; n_cols = 0 makes the division raise
RECURSIVE ColumnLoop(_, _, _, _)
ColumnLoop(cfg, columns, n_cols, column_width) ==
    IF column_width < cfg.fmt_overhead + cfg.minnamelen + 3
    THEN IF n_cols - 1 = 0
         THEN [exc |-> "ZeroDivisionError", n_cols |-> 0, column_width |-> column_width]
         ELSE ColumnLoop(cfg, columns, n_cols - 1,
                         (columns - (n_cols - 1)) \div (n_cols - 1))
    ELSE [exc |-> None, n_cols |-> n_cols, column_width |-> column_width]

\* a variant that starts the search one column above the configured count
get_column_width_fromabove(cfg, columns) ==
    ColumnLoop(cfg, columns, cfg.n_cols + 2, 0)

get_column_width(cfg, columns) == ColumnLoop(cfg, columns, cfg.n_cols + 1, 0)

\* the exception draw_table_windows raises, if any (scry.py:490-497)
draw_table_windows(cfg, columns, wins) ==
    IF Len(wins) = 0 THEN None
    ELSE IF get_column_width(cfg, columns).exc # None
         THEN get_column_width(cfg, columns).exc
         ELSE IF Len(wins) > 1000 THEN "RuntimeError" ELSE None

\* the ceiling of format_window_strings, scry.py:536
TooManyWindows == 1000

\* a variant that rounds the rows per column down
ItemsPerCol_floor(n_windows, n_cols) == n_windows \div n_cols

\* items_per_col of scry.py:494
ItemsPerCol(n_windows, n_cols) == (n_windows + n_cols - 1) \div n_cols

\* draw_table_windows with what it prints: rows lists, for each data row in
\* order, the cells printed before its newline, a cell being the index into
\* window_strings and the window that string was formatted from; measured
\* tells whether get_column_width was called
DrawTable(cfg, columns, wins) ==
    LET header == [exc |-> None, lines_printed |-> 2, rows |-> <<>>,
                   measured |-> FALSE, n_cols |-> 0]
        g == get_column_width(cfg, columns)
        n_cols == g.n_cols
        items_per_col == ItemsPerCol(Len(wins), n_cols)
        Row(i) ==
            LET printed == {j \in 0..(n_cols - 1) : j * items_per_col + i < Len(wins)}
            IN  [c \in 1..Cardinality(printed) |->
                    [index |-> (c - 1) * items_per_col + i,
                     window_id |-> wins[(c - 1) * items_per_col + i + 1].window_id]]
    IN  IF Len(wins) = 0 THEN header
        ELSE IF g.exc # None
        THEN [header EXCEPT !.exc = g.exc, !.measured = TRUE]
        ELSE IF Len(wins) > TooManyWindows
        THEN [header EXCEPT !.exc = "RuntimeError", !.measured = TRUE,
                            !.n_cols = n_cols]
        ELSE [exc |-> None, lines_printed |-> 2 + items_per_col,
              rows |-> [r \in 1..items_per_col |-> Row(r - 1)],
              measured |-> TRUE, n_cols |-> n_cols]

(***************************************************************************)
(* The dump file                                                           *)
(***************************************************************************)

\* a plain scalar of these characters is read back as an integer, not a str
ResolvesToInt(text) == isdecimal(text)

\* yaml.dump of a str: written plain unless the plain form would be read
\* back as another type, and then quoted
YamlDumpScalar(name) == [text |-> name, quoted |-> ResolvesToInt(name)]

\* yaml.safe_load of a scalar; <<"int", ...>> stands for the int object
YamlLoadScalar(sc) ==
    IF sc.quoted \/ ~ResolvesToInt(sc.text) THEN sc.text ELSE <<"int">> \o sc.text

\* dump_windows_to_yaml: the document written to the file
dump_windows_to_yaml(wins) ==
    [exists |-> TRUE,
     active_windows |-> [i \in DOMAIN wins |-> YamlDumpScalar(wins[i].window_name)]]

\* the creation loop of load_windows_from_yaml (scry.py:362-370) over the
\* names still to load, against the snapshot current_window_names
RECURSIVE LoadLoop(_, _, _, _)
LoadLoop(w, names, current_window_names, session_group) ==
    IF Len(names) = 0 THEN w
    ELSE LET window_name == Head(names)
             next == IF window_name \notin current_window_names
                     THEN tmux_create_detached_window(w, window_name, session_group).w
                     ELSE w
         IN  LoadLoop(next, Tail(names), current_window_names, session_group)

\* load_windows_from_yaml: the world afterwards, or the exception that escapes
load_windows_from_yaml(w, file, session_group) ==
    IF ~file.exists THEN [exc |-> None, w |-> w]
    ELSE LET window_names_to_load ==
                 [i \in DOMAIN file.active_windows |->
                     YamlLoadScalar(file.active_windows[i])]
             current_windows == tmux_list_windows(w.ss, w.ws, session_group)
         IN  IF current_windows.exc # None
             THEN [exc |-> current_windows.exc, w |-> w]
             ELSE [exc |-> None,
                   w |-> LoadLoop(w, window_names_to_load,
                                  {x.window_name : x \in Range(current_windows.val)},
                                  session_group)]

(***************************************************************************)
(* Command processing                                                      *)
(***************************************************************************)

\* scry.py:49-57, the options the model reads
default_config ==
    [minnamelen |-> 15, n_cols |-> 4, fmt_overhead |-> 3,
     session_group |-> <<"m", "a", "i", "n">>]

NoMessage == <<>>

\* the result of a command: (window_to_attach, error_message), the world it
\* leaves, and whether it raised or left the process
Result(window_to_attach, msg, w) ==
    [window_to_attach |-> window_to_attach, msg |-> msg, w |-> w,
     exc |-> None, exit |-> FALSE]

\* next((id of the windows named window_name), None), scry.py:220-223
FirstIdNamed(wins, window_name) ==
    IF \E i \in DOMAIN wins : wins[i].window_name = window_name
    THEN wins[CHOOSE i \in DOMAIN wins :
                 /\ wins[i].window_name = window_name
                 /\ \A j \in 1..(i - 1) : wins[j].window_name # window_name].window_id
    ELSE None

process_new_window_command(command, w, session_group) ==
    LET window_name == split(command)[2]
        made == tmux_create_detached_window(w, window_name, session_group)
    IN  IF ~validate_window_name(window_name)
        THEN Result(None, <<"Invalid window name!">>, w)
        ELSE IF made.exc # None
        THEN Result(None, made.msg, w)
        ELSE Result(FirstIdNamed(tmux_list_windows(made.w.ss, made.w.ws,
                                                   session_group).val, window_name),
                    NoMessage, made.w)

\* a variant that swaps to the oldest entry
SwapCommand_oldest(hist) ==
    IF Len(hist) > 1 THEN hist[1] ELSE None

\* the "s" entry of the dispatch table, scry.py:298
SwapCommand(hist) ==
    IF Len(hist) > 1 THEN hist[Len(hist) - 1] ELSE None

\* a variant in which an index past the end selects the last window
process_command_wrapindex(command, wins, hist, w, file, session_group) ==
    IF command = <<>>
    THEN Result(IF Len(hist) > 0 THEN hist[Len(hist)] ELSE None, NoMessage, w)
    ELSE IF isdecimal(command)
    THEN IF int(command) < Len(wins)
         THEN Result(wins[int(command) + 1].window_id, NoMessage, w)
         ELSE IF Len(wins) > 0
         THEN Result(wins[Len(wins)].window_id, NoMessage, w)
         ELSE Result(None, <<"Invalid index">>, w)
    ELSE IF startswith(command, <<"n", " ">>)
    THEN process_new_window_command(command, w, session_group)
    ELSE IF command = <<"s">> THEN Result(SwapCommand(hist), NoMessage, w)
    ELSE IF command = <<"q">> THEN [Result(None, NoMessage, w) EXCEPT !.exit = TRUE]
    ELSE IF command = <<"?">> THEN Result(None, NoMessage, w)
    ELSE IF command = <<"u">> THEN Result(None, NoMessage, w)
    ELSE IF command = <<"d">> THEN Result(None, <<"Window list dumped to YAML.">>, w)
    ELSE IF command = <<"l">>
    THEN LET loaded == load_windows_from_yaml(w, file, session_group)
         IN  [Result(None, <<"Windows loaded from YAML.">>, loaded.w)
                 EXCEPT !.exc = loaded.exc]
    ELSE Result(None, <<"command \"">> \o command \o <<"\" not recognized">>, w)

process_command(command, wins, hist, w, file, session_group) ==
    IF command = <<>>
    THEN Result(IF Len(hist) > 0 THEN hist[Len(hist)] ELSE None, NoMessage, w)
    ELSE IF isdecimal(command)
    THEN IF int(command) < Len(wins)
         THEN Result(wins[int(command) + 1].window_id, NoMessage, w)
         ELSE Result(None, <<"Invalid index">>, w)
    ELSE IF startswith(command, <<"n", " ">>)
    THEN process_new_window_command(command, w, session_group)
    ELSE IF command = <<"s">> THEN Result(SwapCommand(hist), NoMessage, w)
    ELSE IF command = <<"q">> THEN [Result(None, NoMessage, w) EXCEPT !.exit = TRUE]
    ELSE IF command = <<"?">> THEN Result(None, NoMessage, w)
    ELSE IF command = <<"u">> THEN Result(None, NoMessage, w)
    ELSE IF command = <<"d">> THEN Result(None, <<"Window list dumped to YAML.">>, w)
    ELSE IF command = <<"l">>
    THEN LET loaded == load_windows_from_yaml(w, file, session_group)
         IN  [Result(None, <<"Windows loaded from YAML.">>, loaded.w)
                 EXCEPT !.exc = loaded.exc]
    ELSE Result(None, <<"command \"">> \o command \o <<"\" not recognized">>, w)

\* ensure_session_group_exists: subprocess.run raises no RuntimeError, so the
\* except branch of scry.py:260 is never taken
ensure_session_group_exists(w, session_group) ==
    IF ~\E i \in DOMAIN tmux_list_sessions(w.ss).val :
            tmux_list_sessions(w.ss).val[i].session_name = session_group
    THEN [ret |-> FALSE, created |-> TRUE,
          w |-> tmux_create_detached_session(w, session_group, session_group)]
    ELSE [ret |-> TRUE, created |-> FALSE, w |-> w]

(***************************************************************************)
(* Bounds and inputs                                                       *)
(***************************************************************************)

\* window ids the server hands out over a run
MaxWindowId == 3

MainGroup == default_config.session_group

SessionRec(n, name, attached, group) ==
    [session_id |-> SessionId(n), session_name |-> name,
     session_attached |-> attached, session_group |-> group]

\* lines typed at the prompt (rich's Prompt.ask strips them)
Commands ==
    { <<>>, <<"s">>, <<"q">>, <<"u">>, <<"x">>, <<"0">>, <<"1">>, <<"9">>,
      <<"n", " ", "a">>, <<"n", " ", "a", ",">>, <<"n", " ", "a", "!">> }

\* servers the program can be started against: none, the group alone, a
\* server without the group
InitWorlds ==
    { World({}, {}, 0),
      World({SessionRec(0, MainGroup, "0", MainGroup)},
            {NewWindow(0, DefaultWindowName)}, 1),
      World({SessionRec(0, <<"x">>, "0", <<"x">>)}, {}, 0) }

InitTerminalColumns == {20, 80}

\* names other tmux clients give the windows they create
EnvWindowNames == { <<"a">> }

(***************************************************************************)
(* do_table_loop                                                           *)
(***************************************************************************)

NoAttach == [target |-> <<>>, session_name |-> <<>>, created |-> FALSE]

NoStep ==
    [op |-> "init", cmd |-> <<>>, exc |-> None, hist_before |-> <<>>,
     window_to_attach |-> None, attach |-> NoAttach, ensure |-> None,
     created |-> {}, ws_before |-> {}]

InitFrom(worlds, columns, files) ==
    /\ pc = "top"
    /\ WINDOW_HISTORY = <<>>
    /\ windows = <<>>
    /\ display_error_message = NoMessage
    /\ config = default_config
    /\ terminal_columns \in columns
    /\ \E w \in worlds :
          /\ sessions = w.ss
          /\ group_windows = w.ws
          /\ next_window_id = w.nid
    /\ dump_file \in files
    /\ last = NoStep
    /\ promoted = {}
    /\ fn_in = None
    /\ fn_out = None

Init == InitFrom(InitWorlds, InitTerminalColumns, {NoFile})

Here == World(sessions, group_windows, next_window_id)

SetWorld(w) ==
    /\ sessions' = w.ss
    /\ group_windows' = w.ws
    /\ next_window_id' = w.nid

\* scry.py:398-419: list the windows, ensure the group, prune, display
IterTop ==
    /\ pc = "top"
    /\ LET listed == tmux_list_windows(sessions, group_windows, config.session_group)
           ens    == ensure_session_group_exists(Here, config.session_group)
           step   == [NoStep EXCEPT !.op = "top", !.hist_before = WINDOW_HISTORY]
       IN  IF listed.exc # None
           THEN /\ pc' = "crashed"
                /\ last' = [step EXCEPT !.op = "list_failed", !.exc = listed.exc]
                /\ UNCHANGED <<WINDOW_HISTORY, windows, display_error_message,
                               sessions, group_windows, next_window_id>>
           ELSE IF Len(listed.val) = 0 /\ ~ens.ret
           THEN /\ ens.w.nid <= MaxWindowId
                /\ display_error_message' =
                       <<"Did not find session group, attempted to create it">>
                /\ windows' = listed.val
                /\ SetWorld(ens.w)
                /\ pc' = "top"
                /\ last' = [step EXCEPT !.op = "restart",
                               !.ensure = IF ens.created THEN "created" ELSE "exists",
                               !.created = ens.w.ws \ group_windows]
                /\ UNCHANGED WINDOW_HISTORY
           ELSE LET drawn == draw_table_windows(config, terminal_columns, listed.val)
                IN  /\ windows' = listed.val
                    /\ WINDOW_HISTORY' = PruneHistory(WINDOW_HISTORY, listed.val)
                    /\ last' = [step EXCEPT !.op = "prune", !.exc = drawn,
                                   !.ensure = IF Len(listed.val) = 0
                                              THEN "exists" ELSE None]
                    /\ IF drawn # None
                       THEN pc' = "crashed" /\ UNCHANGED display_error_message
                       ELSE pc' = "prompt" /\ display_error_message' = NoMessage
                    /\ UNCHANGED <<sessions, group_windows, next_window_id>>
    /\ UNCHANGED <<config, terminal_columns, dump_file, promoted, fn_in, fn_out>>

\* scry.py:421-429: read a command, process it, promote and attach; `fresh`
\* is the session name a creation would generate
Command(command, fresh) ==
    /\ pc = "prompt"
    /\ LET r == process_command(command, windows, WINDOW_HISTORY, Here, dump_file,
                                config.session_group)
           step == [NoStep EXCEPT !.op = "command", !.cmd = command,
                                  !.hist_before = WINDOW_HISTORY,
                                  !.created = r.w.ws \ group_windows,
                                  !.ws_before = group_windows]
       IN  /\ r.w.nid <= MaxWindowId
           /\ dump_file' = IF command = <<"d">> THEN dump_windows_to_yaml(windows)
                           ELSE dump_file
           /\ IF r.exit
              THEN /\ pc' = "exited"
                   /\ last' = step
                   /\ UNCHANGED <<WINDOW_HISTORY, display_error_message, sessions,
                                  group_windows, next_window_id, promoted>>
              ELSE IF r.exc # None
              THEN /\ pc' = "crashed"
                   /\ last' = [step EXCEPT !.exc = r.exc]
                   /\ UNCHANGED <<WINDOW_HISTORY, display_error_message, sessions,
                                  group_windows, next_window_id, promoted>>
              ELSE IF r.window_to_attach # None
              THEN LET att == tmux_attach_window(r.w, r.window_to_attach,
                                                 config.session_group, fresh)
                   IN  /\ att.w.nid <= MaxWindowId
                       /\ att.created => fresh \in FreshSessionNames(r.w.ss)
                       /\ WINDOW_HISTORY' =
                              update_window_history(WINDOW_HISTORY, r.window_to_attach)
                       /\ promoted' = promoted \cup {r.window_to_attach}
                       /\ SetWorld(att.w)
                       /\ display_error_message' = r.msg
                       /\ pc' = "top"
                       /\ last' = [step EXCEPT !.window_to_attach = r.window_to_attach,
                                      !.attach = [target |-> att.target,
                                                  session_name |-> att.session_name,
                                                  created |-> att.created]]
              ELSE /\ SetWorld(r.w)
                   /\ display_error_message' = r.msg
                   /\ pc' = "top"
                   /\ last' = step
                   /\ UNCHANGED <<WINDOW_HISTORY, promoted>>
    /\ UNCHANGED <<windows, config, terminal_columns, fn_in, fn_out>>

Prompt == \E command \in Commands, fresh \in RandomSessionNames : Command(command, fresh)

(***************************************************************************)
(* Other users of the same tmux server                                     *)
(***************************************************************************)

EnvStep == [NoStep EXCEPT !.op = "env"]

\* kill-window: with its last window gone, every session of the group ends
EnvKillWindow ==
    /\ pc \in {"top", "prompt"}
    /\ \E victim \in group_windows :
          /\ group_windows' = group_windows \ {victim}
          /\ sessions' = IF group_windows = {victim}
                         THEN {s \in sessions : s.session_group # config.session_group}
                         ELSE sessions
    /\ last' = EnvStep
    /\ UNCHANGED <<pc, WINDOW_HISTORY, windows, display_error_message, config,
                   terminal_columns, next_window_id, dump_file, promoted, fn_in, fn_out>>

\* new-window by another client: tmux itself allows a name to repeat
EnvNewWindow ==
    /\ pc \in {"top", "prompt"}
    /\ group_windows # {}
    /\ next_window_id < MaxWindowId
    /\ \E name \in EnvWindowNames : SetWorld(TmuxNewWindow(Here, name))
    /\ last' = EnvStep
    /\ UNCHANGED <<pc, WINDOW_HISTORY, windows, display_error_message, config,
                   terminal_columns, dump_file, promoted, fn_in, fn_out>>

Next == IterTop \/ Prompt \/ EnvKillWindow \/ EnvNewWindow

Spec == Init /\ [][Next]_vars

(***************************************************************************)
(* The attach path against servers that already hold sessions              *)
(***************************************************************************)

\* sessions found next to the group's own: a scratch session, a 7-digit
\* name, a name of 8 digits of which one is no decimal digit, 8 letters,
\* and a scratch session of another group
OtherSessions ==
    { SessionRec(1, <<"1", "2", "3", "4", "5", "6", "7", "8">>, "0", MainGroup),
      SessionRec(2, <<"1", "2", "3", "4", "5", "6", "7">>, "0", MainGroup),
      SessionRec(3, <<"1", "2", "3", "4", "5", "6", "7", "sup2">>, "0", MainGroup),
      SessionRec(4, <<"a", "b", "c", "d", "a", "b", "c", "d">>, "0", MainGroup),
      SessionRec(5, <<"2", "2", "3", "4", "5", "6", "7", "8">>, "0", <<"x">>) }

AttachWorlds ==
    { World({SessionRec(0, MainGroup, "0", MainGroup)} \cup others,
            {NewWindow(0, DefaultWindowName)}, 1) : others \in SUBSET OtherSessions }

AttachCommands == { <<>>, <<"0">> }

InitAttach == InitFrom(AttachWorlds, {80}, {NoFile})

PromptAttach ==
    \E command \in AttachCommands, fresh \in RandomSessionNames : Command(command, fresh)

\* another client attaches to a session, or detaches from it
EnvClient ==
    /\ pc \in {"top", "prompt"}
    /\ \E s \in sessions :
          sessions' = (sessions \ {s}) \cup
              {[s EXCEPT !.session_attached =
                             IF s.session_attached = "0" THEN "1" ELSE "0"]}
    /\ last' = EnvStep
    /\ UNCHANGED <<pc, WINDOW_HISTORY, windows, display_error_message, config,
                   terminal_columns, group_windows, next_window_id, dump_file,
                   promoted, fn_in, fn_out>>

NextAttach == IterTop \/ PromptAttach \/ EnvClient

SpecAttach == InitAttach /\ [][NextAttach]_vars

(***************************************************************************)
(* Dumping and loading the window list                                     *)
(***************************************************************************)

DumpCommands == { <<"d">>, <<"l">>, <<"?">> }

\* the group as ensure_session_group_exists leaves it, and the group with a
\* window named "1" next to a session of another group
DumpWorlds ==
    { World({SessionRec(0, MainGroup, "0", MainGroup)},
            {NewWindow(0, DefaultWindowName)}, 1),
      World({SessionRec(0, MainGroup, "0", MainGroup),
             SessionRec(1, <<"x">>, "0", <<"x">>)},
            {NewWindow(0, DefaultWindowName), NewWindow(1, <<"1">>)}, 2) }

\* dump files an earlier run can have left: none, or the dump of a list in
\* which another client's windows shared a name
DumpFiles ==
    { NoFile,
      dump_windows_to_yaml(<<NewWindow(1, <<"a">>), NewWindow(2, <<"a">>),
                             NewWindow(0, DefaultWindowName)>>) }

InitDump == InitFrom(DumpWorlds, {80}, DumpFiles)

PromptDump ==
    \E command \in DumpCommands, fresh \in RandomSessionNames : Command(command, fresh)

NextDump == IterTop \/ PromptDump \/ EnvKillWindow \/ EnvNewWindow

SpecDump == InitDump /\ [][NextDump]_vars

(***************************************************************************)
(* format_window_name and get_column_width applied to drawn arguments      *)
(***************************************************************************)

\* longest window name and widest name column drawn
MaxNameLen == 5
MaxWidth == 6

\* widest terminal and largest configured column count drawn
MaxTerminalColumns == 110
MaxConfiguredCols == 4

RECURSIVE StringsUpTo(_)
StringsUpTo(n) ==
    IF n = 0 THEN {<<>>}
    ELSE LET shorter == StringsUpTo(n - 1)
         IN  shorter \cup {Append(t, c) : t \in shorter, c \in {"a", "b"}}

\* the loop is not running while a function is studied on its own
InitCall ==
    /\ pc = "call"
    /\ WINDOW_HISTORY = <<>>
    /\ windows = <<>>
    /\ display_error_message = NoMessage
    /\ sessions = {}
    /\ group_windows = {}
    /\ next_window_id = 0
    /\ dump_file = NoFile
    /\ last = NoStep
    /\ promoted = {}
    /\ fn_out = None

InitFormat ==
    /\ InitCall
    /\ config = default_config
    /\ terminal_columns = 80
    /\ fn_in \in [window_name : StringsUpTo(MaxNameLen), maxlen : 0..MaxWidth]

CallFormat ==
    /\ pc = "call"
    /\ fn_out' = format_window_name(fn_in.window_name, fn_in.maxlen)
    /\ pc' = "formatted"
    /\ UNCHANGED <<WINDOW_HISTORY, windows, display_error_message, config,
                   terminal_columns, sessions, group_windows, next_window_id,
                   dump_file, last, promoted, fn_in>>

SpecFormat == InitFormat /\ [][CallFormat]_vars

InitColumns ==
    /\ InitCall
    /\ config \in {[default_config EXCEPT !.n_cols = n] : n \in 1..MaxConfiguredCols}
    /\ terminal_columns \in 0..MaxTerminalColumns
    /\ fn_in = None

CallColumns ==
    /\ pc = "call"
    /\ fn_out' = get_column_width(config, terminal_columns)
    /\ pc' = "measured"
    /\ UNCHANGED <<WINDOW_HISTORY, windows, display_error_message, config,
                   terminal_columns, sessions, group_windows, next_window_id,
                   dump_file, last, promoted, fn_in>>

SpecColumns == InitColumns /\ [][CallColumns]_vars

(***************************************************************************)
(* get_column_width called again after the terminal was resized            *)
(***************************************************************************)

\* one call of get_column_width (scry.py:493) together with the terminal
\* width it read
Measurement(cfg, columns) ==
    LET r == get_column_width(cfg, columns)
    IN  [columns |-> columns, exc |-> r.exc, n_cols |-> r.n_cols,
         column_width |-> r.column_width]

InitResize ==
    /\ InitCall
    /\ config \in {[default_config EXCEPT !.n_cols = n] : n \in 1..MaxConfiguredCols}
    /\ terminal_columns \in 0..MaxTerminalColumns
    /\ fn_in = None

\* the first call of a process: an exception ends the process
MeasureFirst ==
    /\ pc = "call"
    /\ fn_out' = Measurement(config, terminal_columns)
    /\ pc' = IF fn_out'.exc = None THEN "sized" ELSE "crashed"
    /\ UNCHANGED <<WINDOW_HISTORY, windows, display_error_message, config,
                   terminal_columns, sessions, group_windows, next_window_id,
                   dump_file, last, promoted, fn_in>>

\* the user resizes the terminal between two iterations of the loop
Resize ==
    /\ pc = "sized"
    /\ terminal_columns' \in (0..MaxTerminalColumns) \ {terminal_columns}
    /\ UNCHANGED <<pc, WINDOW_HISTORY, windows, display_error_message, config,
                   sessions, group_windows, next_window_id, dump_file, last,
                   promoted, fn_in, fn_out>>

\* the call of the next iteration; fn_in keeps the earlier measurement
MeasureAgain ==
    /\ pc = "sized"
    /\ fn_in' = fn_out
    /\ fn_out' = Measurement(config, terminal_columns)
    /\ pc' = "resized"
    /\ UNCHANGED <<WINDOW_HISTORY, windows, display_error_message, config,
                   terminal_columns, sessions, group_windows, next_window_id,
                   dump_file, last, promoted>>

NextResize == MeasureFirst \/ Resize \/ MeasureAgain

SpecResize == InitResize /\ [][NextResize]_vars

(***************************************************************************)
(* draw_table_windows applied to window lists of drawn lengths             *)
(***************************************************************************)

\* longest window list drawn below the ceiling
MaxRendered == 12

\* the i-th window of a drawn list: tmux ids grow with creation
RenderWindow(i) ==
    [window_id |-> "@" \o ToString(i - 1), window_name |-> <<"a">>,
     window_active_clients |-> "0"]

\* list lengths: the short ones, and the lengths around the ceiling
RenderCounts ==
    (0..MaxRendered) \cup {TooManyWindows - 1, TooManyWindows, TooManyWindows + 1}

\* terminal widths on both sides of each column count's threshold
RenderTerminalColumns == {20, 22, 43, 44, 66, 88, 110}

InitRender ==
    /\ pc = "call"
    /\ WINDOW_HISTORY = <<>>
    /\ windows \in {[i \in 1..n |-> RenderWindow(i)] : n \in RenderCounts}
    /\ display_error_message = NoMessage
    /\ config \in {[default_config EXCEPT !.n_cols = n] : n \in 1..MaxConfiguredCols}
    /\ terminal_columns \in RenderTerminalColumns
    /\ sessions = {}
    /\ group_windows = {}
    /\ next_window_id = 0
    /\ dump_file = NoFile
    /\ last = NoStep
    /\ promoted = {}
    /\ fn_in = None
    /\ fn_out = None

CallDraw ==
    /\ pc = "call"
    /\ fn_out' = DrawTable(config, terminal_columns, windows)
    /\ pc' = IF fn_out'.exc = None THEN "drawn" ELSE "draw_failed"
    /\ UNCHANGED <<WINDOW_HISTORY, windows, display_error_message, config,
                   terminal_columns, sessions, group_windows, next_window_id,
                   dump_file, last, promoted, fn_in>>

SpecRender == InitRender /\ [][CallDraw]_vars

(***************************************************************************)
(* tmux_create_detached_window called in sequence                          *)
(***************************************************************************)

\* window names asked for: two fresh names and the default window's name
CreateNames == { <<"a">>, <<"b">>, DefaultWindowName }

InitCreate == InitFrom(InitWorlds, {80}, {NoFile})

\* one call of tmux_create_detached_window(window_name, session_group)
CallCreate ==
    /\ pc = "top"
    /\ \E window_name \in CreateNames :
          LET made == tmux_create_detached_window(Here, window_name,
                                                  config.session_group)
          IN  /\ made.w.nid <= MaxWindowId
              /\ SetWorld(made.w)
              /\ last' = [NoStep EXCEPT !.op = "create", !.cmd = window_name,
                                        !.exc = made.exc,
                                        !.created = made.w.ws \ group_windows,
                                        !.ws_before = group_windows]
    /\ UNCHANGED <<pc, WINDOW_HISTORY, windows, display_error_message, config,
                   terminal_columns, dump_file, promoted, fn_in, fn_out>>

\* one call of ensure_session_group_exists(session_group)
CallEnsure ==
    /\ pc = "top"
    /\ LET ens == ensure_session_group_exists(Here, config.session_group)
       IN  /\ ens.w.nid <= MaxWindowId
           /\ SetWorld(ens.w)
           /\ last' = [NoStep EXCEPT !.op = "ensure",
                                     !.ensure = IF ens.created THEN "created"
                                                ELSE "exists",
                                     !.created = ens.w.ws \ group_windows,
                                     !.ws_before = group_windows]
    /\ UNCHANGED <<pc, WINDOW_HISTORY, windows, display_error_message, config,
                   terminal_columns, dump_file, promoted, fn_in, fn_out>>

\* windows are added by these calls only; other clients kill windows
NextCreate == CallCreate \/ CallEnsure \/ EnvKillWindow

SpecCreate == InitCreate /\ [][NextCreate]_vars

(***************************************************************************)
(* The commands that attach nothing, between attaches and prunes           *)
(***************************************************************************)

\* two indices, an index past the end, the commands that attach nothing and
\* two inputs the dispatch does not know
FrameCommands ==
    { <<"0">>, <<"1">>, <<"9">>, <<"u">>, <<"d">>, <<"l">>, <<"?">>,
      <<"x">>, <<"n">> }

InitFrame == InitFrom(DumpWorlds, {80}, DumpFiles)

PromptFrame ==
    \E command \in FrameCommands, fresh \in RandomSessionNames : Command(command, fresh)

NextFrame == IterTop \/ PromptFrame \/ EnvKillWindow

SpecFrame == InitFrame /\ [][NextFrame]_vars

(***************************************************************************)
(* Properties                                                              *)
(***************************************************************************)

NoDuplicates(seq) == \A i, j \in DOMAIN seq : i # j => seq[i] # seq[j]

WindowIdsOf(wins) == {wins[i].window_id : i \in DOMAIN wins}

\* C1: whatever commands and prunes have run, WINDOW_HISTORY holds no
\* identifier twice and is no longer than the number of distinct identifiers
\* promoted so far.
HistoryDuplicateFree ==
    /\ NoDuplicates(WINDOW_HISTORY)
    /\ Len(WINDOW_HISTORY) <= Cardinality(promoted)

\* C1 witness: an identifier lying deeper in the history has just been
\* promoted again, after a prune had already shortened the history.
HistoryRepromoted ==
    /\ last.op = "command"
    /\ last.window_to_attach # None
    /\ Len(last.hist_before) >= 2
    /\ Contains(last.hist_before, last.window_to_attach)
    /\ last.hist_before[Len(last.hist_before)] # last.window_to_attach
    /\ Cardinality(promoted) > Len(WINDOW_HISTORY)

\* C2: the prune step removes the most recent entry exactly when its
\* identifier is not among the windows just listed; it removes at most that
\* entry and leaves the older entries and their order as they were.
PruneOnlyStaleHead ==
    last.op = "prune" =>
        LET before == last.hist_before
            removed == Len(WINDOW_HISTORY) < Len(before)
        IN  /\ removed <=> (Len(before) > 0
                            /\ before[Len(before)] \notin WindowIdsOf(windows))
            /\ Len(before) - Len(WINDOW_HISTORY) <= 1
            /\ \A i \in 1..(Len(before) - 1) : WINDOW_HISTORY[i] = before[i]
            /\ ~removed => WINDOW_HISTORY = before

\* C2 witness: the stale head was pruned while an older entry, stale as
\* well, stayed in the history.
PrunedHeadStaleEntryKept ==
    /\ last.op = "prune"
    /\ Len(WINDOW_HISTORY) < Len(last.hist_before)
    /\ \E i \in DOMAIN WINDOW_HISTORY : WINDOW_HISTORY[i] \notin WindowIdsOf(windows)

\* C3: `s` on a history of depth at least 2 whose windows all exist attaches
\* the second most recent entry and moves it to the end, the other entries
\* keeping their order; on a shorter history it attaches nothing and leaves
\* the history alone.
SwapMovesSecondToEnd ==
    (last.op = "command" /\ last.cmd = <<"s">>) =>
        LET before == last.hist_before
            n == Len(before)
        IN  IF n >= 2
            THEN (\A i \in 1..n : before[i] \in WindowIdsOf(windows)) =>
                    /\ last.window_to_attach = before[n - 1]
                    /\ last.attach.target[Len(last.attach.target)] = before[n - 1]
                    /\ WINDOW_HISTORY =
                           SubSeq(before, 1, n - 2) \o <<before[n], before[n - 1]>>
            ELSE /\ last.window_to_attach = None
                 /\ last.attach = NoAttach
                 /\ WINDOW_HISTORY = before

\* C3 witness: `s` has just turned a history [A, B, C] of existing windows
\* into [A, C, B].
SwappedDepthThree ==
    /\ last.op = "command"
    /\ last.cmd = <<"s">>
    /\ Len(last.hist_before) = 3
    /\ \A i \in 1..3 : last.hist_before[i] \in WindowIdsOf(windows)
    /\ WINDOW_HISTORY = <<last.hist_before[1], last.hist_before[3], last.hist_before[2]>>

\* the pattern ^[\w+\-.]+$ of the command table: word characters, "+", "-"
\* and "."
MatchesDocumentedPattern(name) ==
    Len(name) > 0 /\ \A i \in 1..Len(name) :
        IsWordChar(name[i]) \/ name[i] \in {"+", "-", "."}

\* C4: `n <name>` with a name outside ^[\w+\-.]+$ creates no window,
\* attaches nothing, leaves the history unchanged and sets the message
\* "Invalid window name!".
InvalidNameRejected ==
    (/\ last.op = "command"
     /\ startswith(last.cmd, <<"n", " ">>)
     /\ ~MatchesDocumentedPattern(split(last.cmd)[2])) =>
        /\ last.created = {}
        /\ last.window_to_attach = None
        /\ WINDOW_HISTORY = last.hist_before
        /\ display_error_message = <<"Invalid window name!">>

\* C5: a listing against no server yields the empty list, and any other
\* nonzero exit of the list command surfaces as a RuntimeError shown as a
\* message, the loop going on.
ListFailureKeepsLoop ==
    /\ last.op = "restart" => windows = <<>>
    /\ last.op = "list_failed" =>
          /\ last.exc = "RuntimeError"
          /\ pc # "crashed"
          /\ display_error_message # NoMessage

\* C6: with an empty window list the loop restarts with the error message
\* only when creating the missing group failed; a group that was created
\* makes ensure_session_group_exists return True.
RestartOnlyWhenCreationFailed ==
    ~(/\ last.op = "restart"
      /\ last.ensure = "created"
      /\ tmux_session_exists(sessions, config.session_group))

\* the sessions as they were before the last command's attach
SessionsBeforeAttach ==
    IF last.attach.created
    THEN {s \in sessions : s.session_name # last.attach.session_name}
    ELSE sessions

\* a session of the group, unattached, named by exactly 8 decimal digits
DecimalScratchSession(s) ==
    /\ s.session_group = config.session_group
    /\ Len(s.session_name) = 8
    /\ isdecimal(s.session_name)
    /\ s.session_attached = "0"

\* C7: an attach goes through an unattached session of the group whose name
\* is exactly 8 decimal digits when there is one, and otherwise through a
\* session it creates under a fresh 8-digit name; never through a session
\* that is attached, of another group, or not named by 8 decimal digits.
AttachThroughScratchSession ==
    (last.op = "command" /\ last.window_to_attach # None) =>
        IF \E s \in SessionsBeforeAttach : DecimalScratchSession(s)
        THEN /\ ~last.attach.created
             /\ \E s \in SessionsBeforeAttach :
                   /\ DecimalScratchSession(s)
                   /\ last.attach.target = <<s.session_id, ":", last.window_to_attach>>
        ELSE /\ last.attach.created
             /\ Len(last.attach.session_name) = 8
             /\ isdecimal(last.attach.session_name)
             /\ \A s \in SessionsBeforeAttach :
                   s.session_name # last.attach.session_name
             /\ last.attach.target =
                    last.attach.session_name \o <<":", last.window_to_attach>>

DumpedNames == {dump_file.active_windows[i].text : i \in DOMAIN dump_file.active_windows}

NamesOf(ws) == {w.window_name : w \in ws}

\* what C8 says of a load: exactly the dumped names that were absent are
\* created, each once, and the windows that existed are all still there
LoadCreatesAbsentNames ==
    /\ NamesOf(last.created) = DumpedNames \ NamesOf(last.ws_before)
    /\ Cardinality(last.created) = Cardinality(DumpedNames \ NamesOf(last.ws_before))
    /\ group_windows = last.ws_before \cup last.created
    /\ last.created \cap last.ws_before = {}

Loaded == last.op = "command" /\ last.cmd = <<"l">> /\ dump_file.exists

Count(seq, c) == Cardinality({i \in DOMAIN seq : seq[i] = c})

\* C9: a name longer than maxlen comes back with length exactly maxlen,
\* beginning with the first maxlen // 2 characters of the name, ending with
\* its last maxlen - maxlen // 2 - 1 characters and holding exactly one
\* "*"; a name that fits comes back unchanged.
TruncatedToWidth ==
    pc = "formatted" =>
        LET name == fn_in.window_name
            maxlen == fn_in.maxlen
            head == maxlen \div 2
            tail == maxlen - head - 1
        IN  IF Len(name) > maxlen
            THEN /\ Len(fn_out) = maxlen
                 /\ SubSeq(fn_out, 1, head) = SubSeq(name, 1, head)
                 /\ SubSeq(fn_out, Len(fn_out) - tail + 1, Len(fn_out))
                        = SubSeq(name, Len(name) - tail + 1, Len(name))
                 /\ Count(fn_out, "*") = 1
            ELSE fn_out = name

\* C10: for every terminal width and every configured column count of at
\* least 1, get_column_width returns, with n_cols >= 1 and with either a
\* column wide enough or a single column.
ColumnsAlwaysReturned ==
    pc = "measured" =>
        /\ fn_out.exc = None
        /\ fn_out.n_cols >= 1
        /\ \/ fn_out.column_width >= config.fmt_overhead + config.minnamelen + 3
           \/ fn_out.n_cols = 1

\* C11: with the configuration fixed, of two calls of get_column_width that
\* return, the one that read the narrower terminal returns no more columns
\* than the other, and neither returns more than the configured n_cols.
ColumnCountMonotone ==
    (pc = "resized" /\ fn_out.exc = None) =>
        /\ fn_in.columns <= fn_out.columns => fn_in.n_cols <= fn_out.n_cols
        /\ fn_out.columns <= fn_in.columns => fn_out.n_cols <= fn_in.n_cols
        /\ fn_in.n_cols <= config.n_cols
        /\ fn_out.n_cols <= config.n_cols

\* C11 witness: the terminal was widened between two calls; the first call
\* returned fewer columns, the second the configured count.
WidenedGainedColumns ==
    /\ pc = "resized"
    /\ fn_out.exc = None
    /\ fn_in.columns < fn_out.columns
    /\ fn_in.n_cols < fn_out.n_cols
    /\ fn_out.n_cols = config.n_cols

\* C12: rendering a list of more than 1000 windows fails with the capacity
\* error (RuntimeError "too many") before any data row is printed, and
\* rendering a list of 1 to 1000 windows never raises that error.
CapacityErrorAboveCeiling ==
    pc \in {"drawn", "draw_failed"} =>
        /\ Len(windows) > 1000 =>
              /\ fn_out.exc = "RuntimeError"
              /\ fn_out.rows = <<>>
        /\ Len(windows) \in 1..1000 => fn_out.exc # "RuntimeError"

\* what C13 says of one call: an error and nothing created when no session
\* is named after the group or the name is taken in the group; otherwise
\* exactly one new window of that name, with no client on it and with the
\* sessions and their clients as they were
CreateStep ==
    last'.op = "create" =>
        IF \/ ~tmux_session_exists(sessions, config.session_group)
           \/ last'.cmd \in NamesOf(group_windows)
        THEN /\ last'.exc = "RuntimeError"
             /\ group_windows' = group_windows
             /\ sessions' = sessions
        ELSE /\ last'.exc = None
             /\ \E w \in group_windows' \ group_windows :
                   /\ group_windows' = group_windows \cup {w}
                   /\ w.window_name = last'.cmd
                   /\ w.window_active_clients = "0"
             /\ sessions' = sessions

UniqueWindowNames ==
    \A w, v \in group_windows : w.window_name = v.window_name => w = v

\* C13: tmux_create_detached_window fails and creates nothing if no session
\* is named after the group or a window of that name exists in the group;
\* otherwise it creates exactly one new window of that name and attaches
\* nothing.  No sequence of such calls puts two windows of one name in the
\* group.
CreateOnlyFreshNames == [][CreateStep]_vars /\ []UniqueWindowNames

\* C13 witness: a call has added the one window of its name to a group that
\* held two windows of other names.
CreatedThirdWindow ==
    /\ last.op = "create"
    /\ last.exc = None
    /\ Cardinality(last.ws_before) = 2
    /\ Cardinality(group_windows) = 3
    /\ Cardinality(last.created) = 1
    /\ NamesOf(last.created) = {last.cmd}
    /\ last.cmd \notin NamesOf(last.ws_before)

\* ceil(n / c)
CeilDiv(n, c) == (n \div c) + (IF n % c = 0 THEN 0 ELSE 1)

\* C14: for a list of n >= 1 windows drawn in c >= 1 columns, with
\* rows_per_column = ceil(n / c): the window of flat index k is printed in
\* row k mod rows_per_column, column k div rows_per_column; every printed
\* cell holds the index its place determines, below n, so each window is
\* printed exactly once; rows_per_column data rows are emitted and
\* 2 + rows_per_column lines reported.  For n = 0 only the two header lines
\* are printed and get_column_width is not called.
LayoutColumnMajor ==
    /\ (pc = "drawn" /\ Len(windows) >= 1) =>
          LET n == Len(windows)
              c == fn_out.n_cols
              rows_per_column == CeilDiv(n, c)
              rows == fn_out.rows
          IN  /\ c >= 1
              /\ Len(rows) = rows_per_column
              /\ fn_out.lines_printed = 2 + rows_per_column
              /\ \A k \in 0..(n - 1) :
                    LET row == rows[(k % rows_per_column) + 1]
                        col == (k \div rows_per_column) + 1
                    IN  /\ col \in DOMAIN row
                        /\ row[col].index = k
                        /\ row[col].window_id = windows[k + 1].window_id
              /\ \A i \in DOMAIN rows : \A j \in DOMAIN rows[i] :
                    /\ rows[i][j].index = (j - 1) * rows_per_column + (i - 1)
                    /\ rows[i][j].index < n
    /\ (pc \in {"drawn", "draw_failed"} /\ Len(windows) = 0) =>
          /\ fn_out.exc = None
          /\ fn_out.lines_printed = 2
          /\ fn_out.rows = <<>>
          /\ ~fn_out.measured

\* C14 witness: a list was drawn in several columns and several rows, the
\* last row ending before the last column.
DrawnWithShortLastColumn ==
    /\ pc = "drawn"
    /\ fn_out.n_cols >= 3
    /\ Len(fn_out.rows) >= 2
    /\ Len(fn_out.rows[1]) = fn_out.n_cols
    /\ Len(fn_out.rows[Len(fn_out.rows)]) < fn_out.n_cols

\* C15: every identifier the loop promotes and attaches to, by the empty
\* command, `s`, a digit or `n <name>`, is the identifier of a window in the
\* list fetched at the start of the iteration, or, for `n`, in the list
\* fetched again after the creation; also when other clients kill windows
\* between iterations.
PromotedIsListed ==
    (last.op = "command" /\ last.window_to_attach # None) =>
        IF startswith(last.cmd, <<"n", " ">>)
        THEN last.window_to_attach \in {w.window_id : w \in group_windows}
        ELSE last.window_to_attach \in WindowIdsOf(windows)

\* a digit index past the end of the fetched list
OutOfRangeIndex(command) == isdecimal(command) /\ int(command) >= Len(windows)

\* an input that no branch of the dispatch recognizes
Unrecognized(command) ==
    /\ command # <<>>
    /\ ~isdecimal(command)
    /\ ~startswith(command, <<"n", " ">>)
    /\ command \notin {<<"s">>, <<"q">>, <<"?">>, <<"u">>, <<"d">>, <<"l">>}

\* after one of the commands C16 names: nothing attached, the history as it
\* was, and for an unrecognized input the message that quotes it
NonAttachingCommand ==
    (/\ last.op = "command"
     /\ \/ last.cmd \in {<<"u">>, <<"d">>, <<"l">>, <<"?">>}
        \/ OutOfRangeIndex(last.cmd)
        \/ Unrecognized(last.cmd)) =>
        /\ last.window_to_attach = None
        /\ last.attach = NoAttach
        /\ WINDOW_HISTORY = last.hist_before
        /\ Unrecognized(last.cmd) =>
              display_error_message =
                  <<"command \"">> \o last.cmd \o <<"\" not recognized">>

\* a step that changes the history is the prune, dropping the head, or a
\* command whose window is promoted by update_window_history and attached
HistoryStep ==
    WINDOW_HISTORY' # WINDOW_HISTORY =>
        \/ /\ last'.op = "prune"
           /\ WINDOW_HISTORY' = SubSeq(WINDOW_HISTORY, 1, Len(WINDOW_HISTORY) - 1)
        \/ /\ last'.op = "command"
           /\ last'.window_to_attach # None
           /\ last'.attach # NoAttach
           /\ WINDOW_HISTORY' =
                  update_window_history(WINDOW_HISTORY, last'.window_to_attach)

\* C16: `u`, `d`, `l`, `?`, a digit index past the end and any unrecognized
\* input (answered by `command "<input>" not recognized`) attach nothing and
\* leave WINDOW_HISTORY unchanged; the history is changed only by the prune
\* step and by update_window_history right before an attach.
HistoryFrame == []NonAttachingCommand /\ [][HistoryStep]_vars

\* C16 witness: an unrecognized input was answered with its message while
\* the history held two entries and the group three windows.
UnrecognizedLeftHistory ==
    /\ last.op = "command"
    /\ Unrecognized(last.cmd)
    /\ Len(last.hist_before) = 2
    /\ WINDOW_HISTORY = last.hist_before
    /\ display_error_message = <<"command \"">> \o last.cmd \o <<"\" not recognized">>
    /\ Cardinality(group_windows) = 3

====
